---- MODULE Spec2Model ----
(***************************************************************************)
(* A state-machine model of astroNN's data preparation code:               *)
(*   - astroNN.gaia.downloader      (tgas, gaia_source)                    *)
(*   - astroNN.gaiatools.downloader (the legacy tgas, gaia_source)         *)
(*   - astroNN.datasets.h5          (H5Compiler.compile)                   *)
(*   - astroNN.nn.losses            (mean_squared_error)                   *)
(* Spec runs one call of a download function against a local cache         *)
(* directory, SpecLoad one tgas_load, SpecCompile one H5Compiler.compile,  *)
(* SpecFilter one filter_apogeeid_list, SpecOverflow the compile loop at   *)
(* the capacity of its working arrays, SpecIron one compile on a catalog   *)
(* whose abundance columns differ, SpecLoss one mean_squared_error,        *)
(* SpecProgress the update_to calls on one progress bar.                   *)
(***************************************************************************)
EXTENDS Integers, Sequences, FiniteSets, TLC

VARIABLES
    call,       \* the top-level download call being run: [fn, dr]
    stack,      \* activation records of tgas / gaia_source, innermost last
    files,      \* the files of folderpath: [base, over], see FileContent
    manifest,   \* the local MD5SUM.txt: "absent", or the URL base it came from
    noEntry,    \* file names the published manifests have no line for
    folder,     \* TRUE when folderpath exists
    events,     \* what the call did to the outside world, in order
    outcome,    \* "running", "returned", or the name of the exception raised
    result,     \* the value returned to the caller of the top-level call
    cfg,        \* the H5Compiler attributes compile reads
    hdulist,    \* the allStar catalog: a sequence of rows (index 0 first)
    indices,    \* filter_apogeeid_list's result
    counter,    \* compile's position in indices
    array_counter, \* compile's write cursor
    buf,        \* compile's working arrays, by name
    archive,    \* the datasets of <h5_filename>.h5, by name; <<>> before
    cpc,        \* where compile is: "start", "loop", "done", or an exception
    retrieved,  \* what the retrieval of each pass of compile's loop returned
    origin,     \* rows at the head of every working array the model does not keep
    tables,     \* the rows of the TGAS files' tables, by file name
    filter,     \* tgas_load's filter argument
    loaded,     \* what tgas_load returned: the seven arrays, by key
    y_true,     \* the label tensor handed to a loss function
    y_pred,     \* the prediction tensor handed to a loss function
    loss,       \* what the loss function returned: a fraction <<num, den>>
    tqdm_n,     \* the progress bar's position (self.n)
    tqdm_total, \* the progress bar's known total (self.total)
    progress    \* the update_to calls made, each with what it did, in order

dlvars == <<call, stack, files, manifest, noEntry, folder, events, outcome, result>>
cvars == <<cfg, hdulist, indices, counter, array_counter, buf, archive, cpc, retrieved,
           origin>>
lvars == <<tables, filter, loaded>>
mvars == <<y_true, y_pred, loss>>
pvars == <<tqdm_n, tqdm_total, progress>>
vars == <<dlvars, cvars, lvars, mvars, pvars>>

None == "None"
\* An absent integer argument (dr=None, flag=None).
NoInt == -1

(***************************************************************************)
(* Bounds of the model.                                                    *)
(***************************************************************************)
\* How many of the probed cache files may differ from the rest of the cache.
MaxDirty == 2
\* How many lines the published manifests may lack.
MaxMissing == 1
\* How many downloads of one call may deliver damaged content.
MaxBadDownloads == 1
\* How many rows the catalog of the model may have.
MaxStars == 2
\* The largest NVISITS a per-visit file's header may hold.
MaxVisits == 3
\* Rows left in the working arrays when the capacity is approached.
MaxRoom == 3
\* How many times the progress hook is called, and the largest block count
\* it is called with.
MaxCalls == 3
MaxBlocks == 3
\* How many rows the TGAS tables of the model may have in all.
MaxLoadRows == 3
\* How many label slots a tensor handed to a loss function may have.
MaxLabels == 3

(***************************************************************************)
(* astroNN.gaia.downloader: names, cache directory, manifest.              *)
(***************************************************************************)
\* range(0, 16, 1)
NumTgas == 16
\* range(0, 20, 1)
NumOuter == 20
\* range(0, 256, 1)
NumInner == 256
\* range(0, 111, 1)
NumTail == 111

\* 'TgasSource_000-000-0{:02d}.fits'.format(i): the digits of the name.
TgasName(i) == <<"TgasSource", 0, 0, i>>
\* 'GaiaSource_000-0{:02d}-{:03d}.fits'.format(j, i), and, with j = 20,
\* 'GaiaSource_000-020-{:03d}.fits'.format(i).
GaiaName(j, i) == <<"GaiaSource", 0, j, i>>

TgasUrlBase == "http://cdn.gea.esac.esa.int/Gaia/tgas_source/fits/"
GaiaUrlBase == "http://cdn.gea.esac.esa.int/Gaia/gaia_source/fits/"

\* What a file of the cache directory holds.
Absent == "absent"
Clean == "clean"
Corrupt == "corrupt"

\* os.path.isfile(fullfilename), and the content behind it.
FileContent(fs, name) ==
    IF name \in DOMAIN fs.over THEN fs.over[name] ELSE fs.base

IsFile(fs, name) == FileContent(fs, name) # Absent

\* urlretrieve(urlstr, fullfilename): the file now holds what arrived.
WriteFile(fs, name, content) ==
    [fs EXCEPT !.over = [n \in DOMAIN fs.over \cup {name} |->
                            IF n = name THEN content ELSE fs.over[n]]]

\* md5_checksum(fullfilename): the published content of a file has the
\* digest of its manifest line, damaged content has another one.
Md5Checksum(fs, name) ==
    IF FileContent(fs, name) = Clean THEN <<"md5", name>>
    ELSE <<"md5", <<"damaged", 0, 0, 0>>>>

\* The names the manifest published under a URL base has lines for.
Published(urlbase, name) ==
    /\ name \notin noEntry
    /\ \/ urlbase = TgasUrlBase /\ name[1] = "TgasSource"
       \/ urlbase = GaiaUrlBase /\ name[1] = "GaiaSource"

\* (hash_list[0])[np.argwhere(hash_list[1] == filename)]: the digests of the
\* lines of the local manifest that name the file, none or one.
FileHash(mf, name) ==
    IF Published(mf, name) THEN << <<"md5", name>> >> ELSE <<>>

\* A comparison that takes a file without a manifest entry for damaged.
MismatchStrict(checksum, file_hash) ==
    \/ file_hash = <<>>
    \/ checksum # file_hash[1]

\* checksum != file_hash and len(file_hash) != 0
Mismatch(checksum, file_hash) ==
    /\ file_hash # <<>>
    /\ checksum # file_hash[1]

(***************************************************************************)
(* astroNN.gaia.downloader: tgas and gaia_source.                          *)
(***************************************************************************)
\* gaia_default_dr(dr=dr): an absent dr becomes the Gaia default, DR1.
gaia_default_dr(dr) == IF dr = NoInt THEN 1 ELSE dr

UrlBase(fn) == IF fn = "tgas" THEN TgasUrlBase ELSE GaiaUrlBase

\* The activation record a call starts its loops with.  file_hash is a local
\* variable no line has assigned yet: bound says whether it has a value.
NewFrame(fn, dr, flag) ==
    [fn |-> fn, dr |-> dr, flag |-> flag, loop |-> 1, j |-> 0, i |-> 0,
     fulllist |-> <<>>, file_hash |-> <<>>, bound |-> FALSE, resume |-> None]

\* Prologue with the data release checked after the folder and the manifest
\* are seen to.
PrologueLateCheck(fn, dr, fo, mf, ev) ==
    LET ev1 == IF fo THEN ev ELSE Append(ev, <<"makedirs">>)
    IN  [exc |-> IF gaia_default_dr(dr) # 1 THEN "ValueError" ELSE None,
         folder |-> TRUE,
         manifest |-> IF mf = "absent" THEN UrlBase(fn) ELSE mf,
         events |-> IF mf = "absent"
                    THEN Append(ev1, <<"urlretrieve", UrlBase(fn), <<"MD5SUM", 0, 0, 0>>, Clean>>)
                    ELSE ev1]

\* The lines of tgas / gaia_source before the loops: the data release is
\* checked first; then the folder is made and the manifest fetched when they
\* are not there.  Both functions use the same folder and the same manifest
\* file name, each with its own URL base.
Prologue(fn, dr, fo, mf, ev) ==
    IF gaia_default_dr(dr) # 1
    THEN [exc |-> "ValueError", folder |-> fo, manifest |-> mf, events |-> ev]
    ELSE LET ev1 == IF fo THEN ev ELSE Append(ev, <<"makedirs">>)
         IN  [exc |-> None,
              folder |-> TRUE,
              manifest |-> IF mf = "absent" THEN UrlBase(fn) ELSE mf,
              events |-> IF mf = "absent"
                         THEN Append(ev1, <<"urlretrieve", UrlBase(fn), <<"MD5SUM", 0, 0, 0>>, Clean>>)
                         ELSE ev1]

Top == stack[Len(stack)]

\* What the next download may deliver.
Arrivals ==
    IF Cardinality({k \in 1..Len(events) :
                       events[k][1] = "urlretrieve" /\ events[k][4] = Corrupt})
          < MaxBadDownloads
    THEN {Clean, Corrupt} ELSE {Clean}

SetTop(st, f) == [st EXCEPT ![Len(st)] = f]

\* The loop variables after one more pass of tgas's loop.
TgasAdvance(f) == [f EXCEPT !.i = f.i + 1]

\* gaia_source's first loop nest, then its second loop.
GaiaAdvance(f) ==
    IF f.loop = 1
    THEN IF f.i + 1 < NumInner THEN [f EXCEPT !.i = f.i + 1]
         ELSE IF f.j + 1 < NumOuter THEN [f EXCEPT !.j = f.j + 1, !.i = 0]
         ELSE [f EXCEPT !.loop = 2, !.j = NumOuter, !.i = 0]
    ELSE [f EXCEPT !.i = f.i + 1]

Advance(f) == IF f.fn = "tgas" THEN TgasAdvance(f) ELSE GaiaAdvance(f)

\* fulllist.extend([fullfilename])
Extend(f, name) == [f EXCEPT !.fulllist = Append(f.fulllist, name)]

\* The print after a download.  tgas formats its message and prints it;
\* gaia_source applies % to what print returned, which is a TypeError.
PrintDownloaded(fn) == IF fn = "tgas" THEN None ELSE "TypeError"

\* One pass of a loop body over the file `name`, in the frame f; `arrived`
\* is what a download would deliver.  The result says how the pass ends:
\*   "next"  the file was accepted and appended, the loop goes on with frame;
\*   "redo"  a mismatch was detected, the function calls itself with flag=1;
\*   "raise" an exception leaves the call.
LoopBody(f, name, arrived) ==
    IF IsFile(files, name) /\ f.flag = NoInt
    THEN LET file_hash == FileHash(manifest, name)
             g == [f EXCEPT !.file_hash = file_hash, !.bound = TRUE]
         IN  IF Mismatch(Md5Checksum(files, name), file_hash)
             THEN [kind |-> "redo", files |-> files,
                   events |-> Append(events, <<"corruption", name>>),
                   frame |-> [g EXCEPT !.resume = "cached"], exc |-> None]
             ELSE [kind |-> "next", files |-> files, events |-> events,
                   frame |-> Advance(Extend(g, name)), exc |-> None]
    ELSE IF ~IsFile(files, name) \/ f.flag = 1
    THEN LET fs == WriteFile(files, name, arrived)
             ev == Append(events, <<"urlretrieve", UrlBase(f.fn), name, arrived>>)
         IN  IF ~f.bound
             THEN [kind |-> "raise", files |-> fs, events |-> ev,
                   frame |-> f, exc |-> "UnboundLocalError"]
             ELSE IF Mismatch(Md5Checksum(fs, name), f.file_hash)
             THEN [kind |-> "redo", files |-> fs,
                   events |-> Append(ev, <<"corruption", name>>),
                   frame |-> [f EXCEPT !.resume = "download"], exc |-> None]
             ELSE IF PrintDownloaded(f.fn) # None
             THEN [kind |-> "raise", files |-> fs, events |-> ev,
                   frame |-> f, exc |-> PrintDownloaded(f.fn)]
             ELSE [kind |-> "next", files |-> fs, events |-> ev,
                   frame |-> Advance(Extend(f, name)), exc |-> None]
    ELSE [kind |-> "next", files |-> files, events |-> events,
          frame |-> Advance(Extend(f, name)), exc |-> None]

\* The state after a pass that ended as r says.  A redo runs the callee's
\* prologue (the folder and the manifest are there by now) and starts its
\* loops on top of the caller's frame.
EndPass(r) ==
    /\ files' = r.files
    /\ UNCHANGED <<call, noEntry, result, cvars, lvars, mvars, pvars>>
    /\ IF r.kind = "raise"
       THEN /\ outcome' = r.exc
            /\ stack' = <<>>
            /\ events' = r.events
            /\ UNCHANGED <<folder, manifest>>
       ELSE IF r.kind = "redo"
       THEN LET p == Prologue(r.frame.fn, r.frame.dr, folder, manifest, r.events)
            IN  /\ folder' = p.folder
                /\ manifest' = p.manifest
                /\ events' = p.events
                /\ IF p.exc # None
                   THEN outcome' = p.exc /\ stack' = <<>>
                   ELSE /\ outcome' = outcome
                        /\ stack' = Append(SetTop(stack, r.frame),
                                           NewFrame(r.frame.fn, r.frame.dr, 1))
       ELSE /\ stack' = SetTop(stack, r.frame)
            /\ events' = r.events
            /\ UNCHANGED <<outcome, folder, manifest>>

\* tgas(dr, flag) or gaia_source(dr, flag) is called: the prologue.
Enter ==
    /\ outcome = "called"
    /\ call.fn \in {"tgas", "gaia_source"}
    /\ LET p == Prologue(call.fn, call.dr, folder, manifest, events)
       IN  /\ folder' = p.folder
           /\ manifest' = p.manifest
           /\ events' = p.events
           /\ call' = [call EXCEPT !.dr = gaia_default_dr(call.dr)]
           /\ IF p.exc # None
              THEN outcome' = p.exc /\ stack' = <<>>
              ELSE /\ outcome' = "running"
                   /\ stack' = <<NewFrame(call.fn, gaia_default_dr(call.dr), call.flag)>>
    /\ UNCHANGED <<files, noEntry, result, cvars, lvars, mvars, pvars>>

\* for i in range(0, 16, 1): one pass of tgas's loop.
TgasIter ==
    /\ outcome = "running" /\ stack # <<>>
    /\ Top.fn = "tgas" /\ Top.i < NumTgas
    /\ \E arrived \in Arrivals :
          EndPass(LoopBody(Top, TgasName(Top.i), arrived))

\* for j in range(0, 20, 1): for i in range(0, 256, 1): one pass.
GaiaIterMain ==
    /\ outcome = "running" /\ stack # <<>>
    /\ Top.fn = "gaia_source" /\ Top.loop = 1
    /\ \E arrived \in Arrivals :
          EndPass(LoopBody(Top, GaiaName(Top.j, Top.i), arrived))

\* for i in range(0, 111, 1): one pass of gaia_source's second loop.
GaiaIterTail ==
    /\ outcome = "running" /\ stack # <<>>
    /\ Top.fn = "gaia_source" /\ Top.loop = 2 /\ Top.i < NumTail
    /\ \E arrived \in Arrivals :
          EndPass(LoopBody(Top, GaiaName(NumOuter, Top.i), arrived))

LoopsDone(f) ==
    IF f.fn = "tgas" THEN f.i = NumTgas ELSE f.loop = 2 /\ f.i = NumTail

\* The file a frame is at.
CurrentName(f) == IF f.fn = "tgas" THEN TgasName(f.i) ELSE GaiaName(f.j, f.i)

\* return fulllist.  The outermost call hands the list to its caller.  A
\* call the function made of itself drops the list, and the calling pass goes
\* on after the call: with the print of a download if it had downloaded,
\* then with the extend.
Return ==
    /\ outcome = "running" /\ stack # <<>>
    /\ LoopsDone(Top)
    /\ UNCHANGED <<call, files, manifest, noEntry, folder, events, cvars, lvars, mvars, pvars>>
    /\ IF Len(stack) = 1
       THEN /\ outcome' = "returned"
            /\ result' = Top.fulllist
            /\ stack' = <<>>
       ELSE LET f == stack[Len(stack) - 1]
            IN  /\ result' = result
                /\ IF f.resume = "download" /\ PrintDownloaded(f.fn) # None
                   THEN outcome' = PrintDownloaded(f.fn) /\ stack' = <<>>
                   ELSE /\ outcome' = outcome
                        /\ stack' = Append(SubSeq(stack, 1, Len(stack) - 2),
                                [Advance(Extend(f, CurrentName(f))) EXCEPT !.resume = None])

(***************************************************************************)
(* astroNN.gaiatools.downloader: the legacy tgas and gaia_source.          *)
(***************************************************************************)
\* if dr is None: dr = 14
LegacyDefaultDr(dr) == IF dr = NoInt THEN 14 ELSE dr

\* The URL tgas(dr) maps the data release to; None where it raises.
LegacyTgasUrl(dr) ==
    IF dr = 13
    THEN "https://data.sdss.org/sas/dr13/apogee/spectro/redux/r6/stars/l30e/l30e.2/allStar-l30e.2.fits"
    ELSE IF dr = 14
    THEN "https://data.sdss.org/sas/dr14/apogee/spectro/redux/r8/stars/l31c/l31c.2/allStar-l31c.2.fits"
    ELSE None

\* The URL gaia_source(dr) maps the data release to; None where it raises.
LegacyGaiaSourceUrl(dr) ==
    IF dr = 13
    THEN "https://data.sdss.org/sas/dr13/apogee/spectro/redux/r6/allVisit-l30e.2.fits"
    ELSE IF dr = 14
    THEN "https://data.sdss.org/sas/dr14/apogee/spectro/redux/r8/allVisit-l31c.2.fits"
    ELSE None

\* The body both legacy functions share: raise on an unmapped data release,
\* else urlretrieve(url, reporthook=t.update_to), which is given no file
\* name, and return None.
LegacyDownload(url) ==
    /\ call' = [call EXCEPT !.dr = LegacyDefaultDr(call.dr)]
    /\ IF url = None
       THEN outcome' = "ValueError" /\ events' = events
       ELSE /\ outcome' = "returned"
            /\ events' = Append(events, <<"urlretrieve", url, <<"tempfile", 0, 0, 0>>, Clean>>)
    /\ UNCHANGED <<stack, files, manifest, noEntry, folder, result, cvars, lvars, mvars, pvars>>

\* astroNN.gaiatools.downloader.tgas(dr)
LegacyTgas ==
    /\ outcome = "called" /\ call.fn = "legacy_tgas"
    /\ LegacyDownload(LegacyTgasUrl(LegacyDefaultDr(call.dr)))

\* astroNN.gaiatools.downloader.gaia_source(dr)
LegacyGaiaSource ==
    /\ outcome = "called" /\ call.fn = "legacy_gaia_source"
    /\ LegacyDownload(LegacyGaiaSourceUrl(LegacyDefaultDr(call.dr)))

(***************************************************************************)
(* astroNN.datasets.h5: the allStar catalog and filter_apogeeid_list.      *)
(***************************************************************************)
\* A catalog value the filter does not read: one number per row and column,
\* different for different rows and columns.
Synth(index, table, k) == 100000 + index * 10000 + table * 100 + k

\* hdulist[1].data[<column>][index], and [index, k] for the array columns.
\* A row of hdulist holds the columns the filter reads.
CatValue(hdu, index, src) ==
    LET row == hdu[index + 1]
        k == src[2]
    IN  CASE src[1] = "SNR" -> row.SNR
          [] src[1] = "RA" -> Synth(index, 1, 0)
          [] src[1] = "DEC" -> Synth(index, 2, 0)
          [] src[1] = "PARAM" ->
                IF k = 0 THEN row.TEFF ELSE IF k = 1 THEN row.LOGG
                ELSE Synth(index, 3, k)
          [] src[1] = "X_H" ->
                IF k = 16 THEN row.XH16 ELSE IF k = 17 THEN row.XH17
                ELSE Synth(index, 4, k)
          [] src[1] = "PARAM_COV" -> Synth(index, 5, k)
          [] src[1] = "X_H_ERR" -> Synth(index, 6, k)
          [] OTHER -> k

\* H5Compiler.__init__: the thresholds no caller of the model changes.
vscattercut == 1
teff_high == 5500
teff_low == 4000
SNR_low == 200
SNR_high == 99999
ironlow == -3

\* The elements of a set of numbers in ascending order.
RECURSIVE SortedSeq(_)
SortedSeq(S) ==
    IF S = {} THEN <<>>
    ELSE LET m == CHOOSE x \in S : \A y \in S : x <= y
         IN  <<m>> \o SortedSeq(S \ {m})

\* The two switches read the wrong way round: a cut switched on keeps every
\* row, one switched off drops the flagged rows.
FilterSwitchesInverted(c, hdu) ==
    SortedSeq({x \in 0..(Len(hdu) - 1) :
                /\ ~c.starflagcut => hdu[x + 1].STARFLAG = 0
                /\ ~c.aspcapflagcut => hdu[x + 1].ASPCAPFLAG = 0})

\* The two flag cuts made whatever the switches say.
FilterSwitchesIgnored(c, hdu) ==
    SortedSeq({x \in 0..(Len(hdu) - 1) :
                LET r == hdu[x + 1]
                IN  /\ r.STARFLAG = 0 /\ r.ASPCAPFLAG = 0
                    /\ teff_low <= r.TEFF /\ teff_high >= r.TEFF
                    /\ r.VSCATTER < vscattercut /\ r.XH17 > ironlow
                    /\ r.LOGG # -9999 /\ r.SNR > SNR_low /\ r.SNR < SNR_high
                    /\ r.K # -9999 /\ r.LOCATION_ID > 1})

\* filter_apogeeid_list(hdulist): the indices of the rows that pass every
\* mask, as np.intersect1d leaves them: ascending, each once.
filter_apogeeid_list(c, hdu) ==
    LET total == 0..(Len(hdu) - 1)
        row(x) == hdu[x + 1]
        fitlered_starflag ==
            IF c.starflagcut THEN {x \in total : row(x).STARFLAG = 0} ELSE total
        fitlered_aspcapflag ==
            IF c.aspcapflagcut THEN {x \in total : row(x).ASPCAPFLAG = 0} ELSE total
        fitlered_temp_lower == {x \in total : teff_low <= CatValue(hdu, x, <<"PARAM", 0>>)}
        fitlered_temp_upper == {x \in total : teff_high >= CatValue(hdu, x, <<"PARAM", 0>>)}
        fitlered_vscatter == {x \in total : row(x).VSCATTER < vscattercut}
        fitlered_Fe == {x \in total : CatValue(hdu, x, <<"X_H", 17>>) > ironlow}
        fitlered_logg == {x \in total : CatValue(hdu, x, <<"PARAM", 1>>) # -9999}
        fitlered_snrlow == {x \in total : row(x).SNR > SNR_low}
        fitlered_snrhigh == {x \in total : row(x).SNR < SNR_high}
        fitlered_K == {x \in total : row(x).K # -9999}
        fitlered_location == {x \in total : row(x).LOCATION_ID > 1}
    IN  SortedSeq(fitlered_starflag \cap fitlered_aspcapflag \cap fitlered_temp_lower
                  \cap fitlered_vscatter \cap fitlered_Fe \cap fitlered_logg
                  \cap fitlered_snrlow \cap fitlered_snrhigh \cap fitlered_location
                  \cap fitlered_temp_upper \cap fitlered_K)

(***************************************************************************)
(* astroNN.datasets.h5: H5Compiler.compile.                                *)
(***************************************************************************)
default_length == 900000

\* The scalar working arrays compile fills in its loop, in the order of the
\* loop's assignments: <<array, dataset it is written to, catalog column, k>>.
\* "const" is np.tile(-9999, nvisits).
ValueCols == <<
    <<"SNR", "SNR", "SNR", 0>>, <<"RA", "RA", "RA", 0>>,
    <<"DEC", "DEC", "DEC", 0>>, <<"teff", "teff", "PARAM", 0>>,
    <<"logg", "logg", "PARAM", 1>>, <<"MH", "M", "PARAM", 3>>,
    <<"alpha_M", "alpha", "PARAM", 6>>, <<"C", "C", "X_H", 0>>,
    <<"C1", "C1", "X_H", 1>>, <<"N", "N", "X_H", 2>>, <<"O", "O", "X_H", 3>>,
    <<"Na", "Na", "X_H", 4>>, <<"Mg", "Mg", "X_H", 5>>,
    <<"Al", "Al", "X_H", 6>>, <<"Si", "Si", "X_H", 7>>,
    <<"P", "P", "X_H", 8>>, <<"S", "S", "X_H", 9>>, <<"K", "K", "X_H", 10>>,
    <<"Ca", "Ca", "X_H", 11>>, <<"Ti", "Ti", "X_H", 12>>,
    <<"Ti2", "Ti2", "X_H", 13>>, <<"V", "V", "X_H", 14>>,
    <<"Cr", "Cr", "X_H", 15>>, <<"Mn", "Mn", "X_H", 15>>,
    <<"Fe", "Fe", "X_H", 16>>, <<"Ni", "Ni", "X_H", 17>>,
    <<"Cu", "Cu", "X_H", 19>>, <<"Ge", "Ge", "X_H", 20>>,
    <<"Rb", "Rb", "X_H", 22>>, <<"Y", "Y", "X_H", 23>>,
    <<"Nd", "Nd", "X_H", 24>>, <<"absmag", "absmag", "const", -9999>> >>

\* The error working arrays: <<array, dataset, catalog column, k, the array
\* the truncation after the loop assigns to it>>.
ErrCols == <<
    <<"teff_err", "teff_err", "PARAM_COV", 0, "teff">>,
    <<"logg_err", "logg_err", "PARAM_COV", 1, "logg">>,
    <<"MH_err", "M_err", "PARAM_COV", 3, "MH">>,
    <<"alpha_M_err", "alpha_err", "PARAM_COV", 6, "alpha_M">>,
    <<"C_err", "C_err", "X_H_ERR", 0, "C">>,
    <<"C1_err", "C1_err", "X_H_ERR", 1, "C1">>,
    <<"N_err", "N_err", "X_H_ERR", 2, "N">>,
    <<"O_err", "O_err", "X_H_ERR", 3, "O">>,
    <<"Na_err", "Na_err", "X_H_ERR", 4, "Na">>,
    <<"Mg_err", "Mg_err", "X_H_ERR", 5, "Mg">>,
    <<"Al_err", "Al_err", "X_H_ERR", 6, "Al">>,
    <<"Si_err", "Si_err", "X_H_ERR", 7, "Si">>,
    <<"P_err", "P_err", "X_H_ERR", 8, "P">>,
    <<"S_err", "S_err", "X_H_ERR", 9, "S">>,
    <<"K_err", "K_err", "X_H_ERR", 10, "K">>,
    <<"Ca_err", "Ca_err", "X_H_ERR", 11, "Ca">>,
    <<"Ti_err", "Ti_err", "X_H_ERR", 12, "Ti">>,
    <<"Ti2_err", "Ti2_err", "X_H_ERR", 13, "Ti2">>,
    <<"V_err", "V_err", "X_H_ERR", 14, "V">>,
    <<"Cr_err", "Cr_err", "X_H_ERR", 15, "Cr">>,
    <<"Mn_err", "Mn_err", "X_H_ERR", 15, "Mn">>,
    <<"Fe_err", "Fe_err", "X_H_ERR", 16, "Fe">>,
    <<"Ni_err", "Ni_err", "X_H_ERR", 17, "Ni">>,
    <<"Cu_err", "Cu_err", "X_H_ERR", 19, "Cu">>,
    <<"Ge_err", "Ge_err", "X_H_ERR", 20, "Ge">>,
    <<"Rb_err", "Rb_err", "X_H_ERR", 22, "Rb">>,
    <<"Y_err", "Y_err", "X_H_ERR", 23, "Y">>,
    <<"Nd_err", "Nd_err", "X_H_ERR", 24, "Nd">>,
    <<"absmag_err", "absmag_err", "const", -9999, "absmag">> >>

Range(q) == {q[k] : k \in 1..Len(q)}

\* The arrays np.zeros allocates before the loop.
BufNames ==
    {"spec", "spec_err", "individual_flag"}
        \cup {c[1] : c \in Range(ValueCols)} \cup {c[1] : c \in Range(ErrCols)}

Min(a, b) == IF a <= b THEN a ELSE b
Max(a, b) == IF a >= b THEN a ELSE b

\* A working array is np.zeros(default_length): the model keeps the rows from
\* row origin up to the last one written, the rows after them are 0.  Row r
\* of the array is element r - origin + 1 of the sequence.
RowAt(b, r) == IF r < Len(b) THEN b[r + 1] ELSE 0

\* The rows the slice b[a:a+n] has: a slice ends where the array ends.
SliceLen(a, n) == Max(0, Min(a + n, default_length) - Min(a, default_length))

\* b[a:a+n] = vals can be done: vals has the rows of the slice, or one row,
\* which is repeated; anything else is numpy's ValueError.
Fits(a, n, vals) == Len(vals) = SliceLen(a, n) \/ Len(vals) = 1

\* b[a:a+n] = vals
SliceAssign(b, a, n, vals) ==
    LET m == SliceLen(a, n)
        s == a - origin
    IN  [r \in 1..(IF m = 0 THEN Len(b) ELSE Max(Len(b), s + m)) |->
            IF r - 1 >= s /\ r - 1 < s + m
            THEN (IF Len(vals) = 1 THEN vals[1] ELSE vals[r - s])
            ELSE RowAt(b, r - 1)]

\* A tile whose repeats differ.
TileRamp(x, n) == [r \in 1..n |-> x + r - 1]

\* np.tile(x, n)
Tile(x, n) == [r \in 1..n |-> x]

\* b[0:n]
Truncate(b, n) == [r \in 1..(Min(n, default_length) - origin) |-> RowAt(b, r - 1)]

\* The rows of the data of a per-visit (apStar) file whose header says
\* NVISITS = v: the one spectrum, or two stacked rows and then the visits.
ApStarRows(id, v) ==
    [r \in 1..(IF v = 1 THEN 1 ELSE v + 2) |-> <<"apStar", id, r - 1>>]

\* apstar_file[1].data[1:]
DropFirst(rows) == SubSeq(rows, 2, Len(rows))

\* gap_delete(_spec), and on the default path apstar_normalization(...):
\* row by row, every row kept.
Processed(rows, how) == [r \in 1..Len(rows) |-> <<how, rows[r]>>]

\* Every row of a block flagged as an individual visit.
FlagBlockAllIndividual(b, a, n) == SliceAssign(b, a, n, <<1>>)

\* The flags of a block of n rows at a: individual_flag[a:a+n] = 0 for one
\* row; else individual_flag[a:a+1] = 0 and individual_flag[a+1:a+n] = 1.
FlagBlock(b, a, n) ==
    IF n = 1 THEN SliceAssign(b, a, n, <<0>>)
    ELSE SliceAssign(SliceAssign(b, a, 1, <<0>>), a + 1, n - 1, <<1>>)

\* The working arrays after the loop has written the block of the star at
\* `index`: n rows at the cursor a.
WriteBlock(b, hdu, index, a, n, spectra, spectra_errs) ==
    [name \in BufNames |->
        IF name = "individual_flag" THEN FlagBlock(b[name], a, n)
        ELSE IF name = "spec" THEN SliceAssign(b[name], a, n, spectra)
        ELSE IF name = "spec_err" THEN SliceAssign(b[name], a, n, spectra_errs)
        ELSE LET c == CHOOSE c \in Range(ValueCols) \cup Range(ErrCols) : c[1] = name
             IN  SliceAssign(b[name], a, n, Tile(CatValue(hdu, index, <<c[3], c[4]>>), n))]

\* Whether a function whose parameters are `params` takes the keyword
\* arguments `kwargs`; it raises TypeError when it does not.
Accepts(params, kwargs) == kwargs \subseteq params

\* The cross-match step.  anderson_2017_parallax(filter=True) is called with
\* mode='r' and tgas_load(dr=None, filter=True) with compact=True.
CrossMatchLoad(c) ==
    IF c.use_anderson_2017 THEN Accepts({"filter"}, {"mode"})
    ELSE IF c.use_esa_gaia THEN Accepts({"dr", "filter"}, {"compact"})
    ELSE TRUE

\* The arrays after the truncation lines: each working array cut to the rows
\* written; each error array is assigned the cut of the array its line names.
Truncated(b, n) ==
    [name \in BufNames |->
        IF \E c \in Range(ErrCols) : c[1] = name
        THEN LET c == CHOOSE c \in Range(ErrCols) : c[1] = name
             IN  Truncate(b[c[5]], n)
        ELSE Truncate(b[name], n)]

\* Every dataset written whatever spectra_only says.
DatasetsAlways(c, t, idx) ==
    LET cols == Range(ValueCols) \cup Range(ErrCols)
    IN  [d \in {"spectra", "spectra_err", "in_flag", "index"} \cup {x[2] : x \in cols} |->
            IF d = "spectra" THEN t["spec"]
            ELSE IF d = "spectra_err" THEN t["spec_err"]
            ELSE IF d = "in_flag" THEN t["individual_flag"]
            ELSE IF d = "index" THEN idx
            ELSE t[(CHOOSE x \in cols : x[2] = d)[1]]]

\* The datasets h5f.create_dataset writes, by name.
Datasets(c, t, idx) ==
    LET always == {"spectra", "spectra_err", "in_flag", "index"}
        cols == Range(ValueCols) \cup Range(ErrCols)
        names == IF c.spectra_only THEN always
                 ELSE always \cup {x[2] : x \in cols}
    IN  [d \in names |->
            IF d = "spectra" THEN t["spec"]
            ELSE IF d = "spectra_err" THEN t["spec_err"]
            ELSE IF d = "in_flag" THEN t["individual_flag"]
            ELSE IF d = "index" THEN idx
            ELSE t[(CHOOSE x \in cols : x[2] = d)[1]]]

\* h5name_check(self.h5_filename): an absent name is refused.
h5name_check(name) == IF name = None THEN "InvalidInput" ELSE None

\* compile with the name checked after the catalog is filtered and the
\* working arrays are allocated.
CompileStartLateCheck ==
    /\ cpc = "start"
    /\ indices' = filter_apogeeid_list(cfg, hdulist)
    /\ buf' = [name \in BufNames |-> <<>>]
    /\ array_counter' = 0
    /\ counter' = 0
    /\ cpc' = (IF h5name_check(cfg.h5_filename) # None
               THEN h5name_check(cfg.h5_filename) ELSE "loop")
    /\ UNCHANGED <<cfg, hdulist, archive, retrieved, dlvars, origin, lvars, mvars, pvars>>

\* compile up to its loop: the name is checked, the catalog loaded and
\* filtered, the working arrays allocated, the cursor set to 0.
CompileStart ==
    /\ cpc = "start"
    /\ IF h5name_check(cfg.h5_filename) # None
       THEN /\ cpc' = h5name_check(cfg.h5_filename)
            /\ UNCHANGED <<indices, buf, array_counter, counter>>
       ELSE /\ indices' = filter_apogeeid_list(cfg, hdulist)
            /\ buf' = [name \in BufNames |-> <<>>]
            /\ array_counter' = 0
            /\ counter' = 0
            /\ cpc' = "loop"
    /\ UNCHANGED <<cfg, hdulist, archive, retrieved, dlvars, origin, lvars, mvars, pvars>>

\* One pass of `for counter, index in enumerate(indices)`.  The retrieval
\* answers with a warning flag (absent, or set when the spectrum could not
\* be retrieved); `opens` says whether the path it names can be opened, and
\* v is the NVISITS of the file's header.  retrieved keeps, for each pass,
\* what came back, the rows the pass made of it and the cursor it met.
CompileStar ==
    /\ cpc = "loop"
    /\ counter < Len(indices)
    /\ \E warningflag \in {NoInt, 1}, opens \in BOOLEAN, v \in 1..MaxVisits :
        LET index == indices[counter + 1]
            a == array_counter
        IN  /\ warningflag = NoInt => opens
            /\ ~cfg.continuum => (v = 1 /\ opens = (warningflag = NoInt))
            /\ IF cfg.continuum /\ ~opens
               THEN \* fits.open(apstar_path) comes before the flag is looked at
                    /\ cpc' = "FileNotFoundError"
                    /\ retrieved' = Append(retrieved,
                            [index |-> index, warningflag |-> warningflag,
                             NVISITS |-> 0, nvisits |-> 1, at |-> a])
                    /\ UNCHANGED <<buf, array_counter, counter>>
               ELSE LET nvisits == IF cfg.continuum /\ v # 1 THEN v + 1 ELSE 1
                        data == IF cfg.continuum
                                THEN (IF v = 1 THEN ApStarRows(index, v)
                                      ELSE DropFirst(ApStarRows(index, v)))
                                ELSE <<<<"aspcapStar", index, 0>>>>
                        how == IF cfg.continuum THEN "normalized" ELSE "gap_deleted"
                        _spec == Processed(data, how)
                    IN  /\ retrieved' = Append(retrieved,
                                [index |-> index, warningflag |-> warningflag,
                                 NVISITS |-> v, nvisits |-> nvisits, at |-> a])
                        /\ IF warningflag # NoInt
                           THEN /\ counter' = counter + 1
                                /\ UNCHANGED <<buf, array_counter, cpc>>
                           ELSE IF ~Fits(a, nvisits, _spec)
                           THEN /\ cpc' = "ValueError"
                                /\ UNCHANGED <<buf, array_counter, counter>>
                           ELSE /\ buf' = WriteBlock(buf, hdulist, index, a, nvisits,
                                                     _spec, _spec)
                                /\ array_counter' = a + nvisits
                                /\ counter' = counter + 1
                                /\ cpc' = cpc
    /\ UNCHANGED <<cfg, hdulist, indices, archive, dlvars, origin, lvars, mvars, pvars>>

\* compile after its loop: the arrays are cut to the rows written, the
\* external catalog is loaded when one is enabled, the archive is written.
CompileFinish ==
    /\ cpc = "loop"
    /\ counter = Len(indices)
    /\ buf' = Truncated(buf, array_counter)
    /\ IF ~CrossMatchLoad(cfg)
       THEN cpc' = "TypeError" /\ archive' = archive
       ELSE cpc' = "done" /\ archive' = Datasets(cfg, buf', indices)
    /\ UNCHANGED <<cfg, hdulist, indices, counter, array_counter, retrieved, dlvars, origin, lvars, mvars, pvars>>

\* Catalog rows: one that passes every mask, one with a star flag set, one
\* with a low signal-to-noise ratio.
GoodStar ==
    [STARFLAG |-> 0, ASPCAPFLAG |-> 0, VSCATTER |-> 0, SNR |-> 300,
     LOCATION_ID |-> 4000, TEFF |-> 4500, LOGG |-> 2, K |-> 10,
     XH16 |-> 0, XH17 |-> 0]
FlaggedStar == [GoodStar EXCEPT !.STARFLAG = 1]
FaintStar == [GoodStar EXCEPT !.SNR = 100]
StarKinds == {GoodStar, FlaggedStar, FaintStar}

\* tgas_load has not been called.
LoadIdle == tables = <<>> /\ filter = TRUE /\ loaded = <<>>

\* A progress bar as tqdm makes it: at 0, its total not known.
ProgressIdle == tqdm_n = 0 /\ tqdm_total = NoInt /\ progress = <<>>

\* No loss function has been called.
LossIdle == y_true = <<>> /\ y_pred = <<>> /\ loss = <<>>

\* No download function has been called.
DownloadIdle ==
    /\ call = [fn |-> "none", dr |-> NoInt, flag |-> NoInt]
    /\ stack = <<>> /\ files = [base |-> Absent, over |-> <<>>]
    /\ manifest = "absent" /\ noEntry = {} /\ folder = FALSE
    /\ events = <<>> /\ outcome = "idle" /\ result = <<>>

InitCompile ==
    /\ cfg \in [h5_filename : {None, "dataset"}, spectra_only : BOOLEAN,
                continuum : BOOLEAN, use_anderson_2017 : BOOLEAN,
                use_esa_gaia : BOOLEAN, starflagcut : BOOLEAN,
                aspcapflagcut : BOOLEAN]
    /\ hdulist \in UNION {[1..n -> StarKinds] : n \in 0..MaxStars}
    /\ indices = <<>>
    /\ counter = 0
    /\ array_counter = 0
    /\ buf = <<>>
    /\ archive = <<>>
    /\ cpc = "start"
    /\ retrieved = <<>>
    /\ origin = 0
    /\ DownloadIdle /\ LoadIdle /\ LossIdle /\ ProgressIdle

NextCompile ==
    \/ CompileStart
    \/ CompileStar
    \/ CompileFinish

SpecCompile == InitCompile /\ [][NextCompile]_vars

\* compile near the capacity of its working arrays.  The state is the one
\* the loop is in after its first pass, when the first star of the list has
\* a per-visit file of origin - 1 visits: that pass wrote rows 0..origin-1,
\* which the model does not keep, and left the cursor at origin, at most
\* MaxRoom rows before default_length.
InitOverflow ==
    /\ cfg \in [h5_filename : {"dataset"}, spectra_only : BOOLEAN,
                continuum : {TRUE}, use_anderson_2017 : {FALSE},
                use_esa_gaia : {FALSE}, starflagcut : {TRUE},
                aspcapflagcut : {TRUE}]
    /\ hdulist \in UNION {[1..n -> StarKinds] : n \in 2..(MaxStars + 1)}
    /\ hdulist[1] = GoodStar
    /\ indices = filter_apogeeid_list(cfg, hdulist)
    /\ origin \in (default_length - MaxRoom)..default_length
    /\ counter = 1
    /\ array_counter = origin
    /\ buf = [name \in BufNames |-> <<>>]
    /\ archive = <<>>
    /\ cpc = "loop"
    /\ retrieved = <<[index |-> indices[1], warningflag |-> NoInt,
                      NVISITS |-> origin - 1, nvisits |-> origin, at |-> 0]>>
    /\ DownloadIdle /\ LoadIdle /\ LossIdle /\ ProgressIdle

NextOverflow ==
    \/ CompileStar
    \/ CompileFinish

SpecOverflow == InitOverflow /\ [][NextOverflow]_vars

\* Catalog rows whose abundances differ in the columns 16 and 17 of X_H.
LowXH16Star == [GoodStar EXCEPT !.XH16 = -5]
LowXH17Star == [GoodStar EXCEPT !.XH17 = -5]
IronKinds == {GoodStar, LowXH16Star, LowXH17Star}

\* compile, by a compiler with the attributes of __init__ but for the name
\* of the archive and the spectrum path, on a catalog of such rows.
InitIron ==
    /\ cfg \in [h5_filename : {"dataset"}, spectra_only : {FALSE},
                continuum : BOOLEAN, use_anderson_2017 : {FALSE},
                use_esa_gaia : {FALSE}, starflagcut : {TRUE},
                aspcapflagcut : {TRUE}]
    /\ hdulist \in UNION {[1..n -> IronKinds] : n \in 1..MaxStars}
    /\ indices = <<>>
    /\ counter = 0
    /\ array_counter = 0
    /\ buf = <<>>
    /\ archive = <<>>
    /\ cpc = "start"
    /\ retrieved = <<>>
    /\ origin = 0
    /\ DownloadIdle /\ LoadIdle /\ LossIdle /\ ProgressIdle

NextIron ==
    \/ CompileStart
    \/ CompileStar
    \/ CompileFinish

SpecIron == InitIron /\ [][NextIron]_vars

(***************************************************************************)
(* One call of a download function.                                        *)
(***************************************************************************)
\* The data releases a caller passes.
Drs == {NoInt, 1, 2, 13, 14, 15}

\* The cache files whose state is chosen freely; the others are all there and
\* intact, or all absent.
TgasProbes == {TgasName(0), TgasName(1), TgasName(2), TgasName(NumTgas - 1)}
GaiaProbes == {GaiaName(0, 0), GaiaName(NumOuter, NumTail - 1)}

Probes(fn) ==
    IF fn = "tgas" THEN TgasProbes
    ELSE IF fn = "gaia_source" THEN GaiaProbes
    ELSE {}

\* The cache directories a call may find.
Caches(fn) ==
    {[base |-> b, over |-> o] :
        b \in (IF Probes(fn) = {} THEN {Absent} ELSE {Absent, Clean}),
        o \in UNION {[D -> {Absent, Clean, Corrupt}] :
                        D \in {E \in SUBSET Probes(fn) : Cardinality(E) <= MaxDirty}}}

\* compile has not been called.
CompileIdle ==
    /\ cfg = None /\ hdulist = <<>> /\ indices = <<>> /\ counter = 0
    /\ array_counter = 0 /\ buf = <<>> /\ archive = <<>> /\ cpc = "idle"
    /\ retrieved = <<>> /\ origin = 0

Init ==
    /\ call \in [fn : {"tgas", "gaia_source"}, dr : Drs, flag : {NoInt, 1}]
                \cup [fn : {"legacy_tgas", "legacy_gaia_source"}, dr : Drs, flag : {NoInt}]
    /\ files \in {c \in Caches(call.fn) : \A n \in DOMAIN c.over : c.over[n] # c.base}
    /\ manifest \in (IF Probes(call.fn) = {} THEN {"absent"}
                     ELSE {"absent", TgasUrlBase, GaiaUrlBase})
    /\ noEntry \in {E \in SUBSET (IF call.fn = "tgas" THEN TgasProbes ELSE {}) :
                        Cardinality(E) <= MaxMissing}
    /\ folder \in (IF manifest # "absent" \/ files.base # Absent
                      \/ \E n \in DOMAIN files.over : files.over[n] # Absent
                   THEN {TRUE} ELSE BOOLEAN)
    /\ stack = <<>>
    /\ events = <<>>
    /\ outcome = "called"
    /\ result = <<>>
    /\ CompileIdle /\ LoadIdle /\ LossIdle /\ ProgressIdle

Next ==
    \/ Enter
    \/ TgasIter
    \/ GaiaIterMain
    \/ GaiaIterTail
    \/ Return
    \/ LegacyTgas
    \/ LegacyGaiaSource

Spec == Init /\ [][Next]_vars

(***************************************************************************)
(* One call of H5Compiler.filter_apogeeid_list.                            *)
(***************************************************************************)
\* Catalog rows that fail one mask each.
AspcapStar == [GoodStar EXCEPT !.ASPCAPFLAG = 1]
BothFlaggedStar == [GoodStar EXCEPT !.STARFLAG = 1, !.ASPCAPFLAG = 1]
HotStar == [GoodStar EXCEPT !.TEFF = 6000]
CoolStar == [GoodStar EXCEPT !.TEFF = 3000]
ScatteredStar == [GoodStar EXCEPT !.VSCATTER = 1]
PoorStar == [GoodStar EXCEPT !.XH17 = -5]
NoLoggStar == [GoodStar EXCEPT !.LOGG = -9999]
NoKStar == [GoodStar EXCEPT !.K = -9999]
NoLocationStar == [GoodStar EXCEPT !.LOCATION_ID = 1]
FilterKinds ==
    StarKinds \cup {AspcapStar, BothFlaggedStar, HotStar, CoolStar, ScatteredStar,
                    PoorStar, NoLoggStar, NoKStar, NoLocationStar}

\* compiler.filter_apogeeid_list(hdulist) on a compiler whose attributes
\* are those of __init__ but for the two switches.
FilterCall ==
    /\ cpc = "filter"
    /\ indices' = filter_apogeeid_list(cfg, hdulist)
    /\ cpc' = "filtered"
    /\ UNCHANGED <<cfg, hdulist, counter, array_counter, buf, archive, retrieved,
                   origin, dlvars, lvars, mvars, pvars>>

InitFilter ==
    /\ cfg \in [h5_filename : {None}, spectra_only : {FALSE}, continuum : {TRUE},
                use_anderson_2017 : {FALSE}, use_esa_gaia : {FALSE},
                starflagcut : BOOLEAN, aspcapflagcut : BOOLEAN]
    /\ hdulist \in UNION {[1..n -> FilterKinds] : n \in 0..MaxStars}
    /\ indices = <<>>
    /\ counter = 0
    /\ array_counter = 0
    /\ buf = <<>>
    /\ archive = <<>>
    /\ cpc = "filter"
    /\ retrieved = <<>>
    /\ origin = 0
    /\ DownloadIdle /\ LoadIdle /\ LossIdle /\ ProgressIdle

NextFilter == FilterCall

SpecFilter == InitFilter /\ [][NextFilter]_vars

(***************************************************************************)
(* astroNN.gaia.downloader: tgas_load.                                     *)
(***************************************************************************)
\* gaia[1].data of the file at a path: the rows of its table.
Table(path) == IF path \in DOMAIN tables THEN tables[path] ELSE <<>>

\* One column after the loop over tgas_list: np.concatenate((acc, data[col]))
\* file by file, in the order of the list.
RECURSIVE Gathered(_, _)
Gathered(paths, col) ==
    IF paths = <<>> THEN <<>>
    ELSE LET data == Table(paths[Len(paths)])
         IN  Gathered(SubSeq(paths, 1, Len(paths) - 1), col)
                \o [k \in 1..Len(data) |-> data[k][col]]

\* parallax_error / parallax <= 0.2
RatioAtMostFifth(e, p) ==
    IF p = 0 THEN e < 0
    ELSE IF p > 0 THEN 5 * e <= p
    ELSE 5 * e >= p

\* parallax_error / parallax < 0.2, in floating point: a division by zero
\* gives -inf, inf or nan, of which only -inf is below 0.2.  The model's
\* values are small integers, for which the quotient is compared exactly.
RatioBelowFifth(e, p) ==
    IF p = 0 THEN e < 0
    ELSE IF p > 0 THEN 5 * e < p
    ELSE 5 * e > p

\* reduce(np.intersect1d, (filtered_err_idx, filtered_neg_idx)) over the
\* np.where results: the positions (from 0) in both, ascending, each once.
FilteredIndex(parallax, parallax_error) ==
    LET n == Len(parallax)
        filtered_err_idx ==
            {k \in 0..(n - 1) : RatioBelowFifth(parallax_error[k + 1], parallax[k + 1])}
        filtered_neg_idx == {k \in 0..(n - 1) : parallax[k + 1] > 0}
    IN  SortedSeq(filtered_err_idx \cap filtered_neg_idx)

\* arr[filtered_index]
Take(arr, index) == [k \in 1..Len(index) |-> arr[index[k] + 1]]

\* The key of the returned dict and the table column it is read from.
LoadColumns ==
    { <<"ra", "RA">>, <<"dec", "DEC">>, <<"pmra", "PMRA">>, <<"pmdec", "PMDEC">>,
      <<"parallax", "parallax">>, <<"parallax_err", "parallax_error">>,
      <<"gmag", "phot_g_mean_mag">> }

\* tgas_load from the loop over tgas_list to its return.
LoadArrays(paths, flt) ==
    LET index == FilteredIndex(Gathered(paths, "parallax"),
                               Gathered(paths, "parallax_error"))
    IN  [key \in {c[1] : c \in LoadColumns} |->
            LET col == (CHOOSE c \in LoadColumns : c[1] = key)[2]
            IN  IF flt THEN Take(Gathered(paths, col), index)
                ELSE Gathered(paths, col)]

\* tgas_load(dr, filter) up to its call of tgas: dr = gaia_default_dr(dr=dr),
\* then tgas(dr=dr), whose prologue this step runs.
TgasLoadEnter ==
    /\ outcome = "called"
    /\ call.fn = "tgas_load"
    /\ LET dr == gaia_default_dr(call.dr)
           p == Prologue("tgas", dr, folder, manifest, events)
       IN  /\ folder' = p.folder
           /\ manifest' = p.manifest
           /\ events' = p.events
           /\ call' = [call EXCEPT !.dr = dr]
           /\ IF p.exc # None
              THEN outcome' = p.exc /\ stack' = <<>>
              ELSE /\ outcome' = "running"
                   /\ stack' = <<NewFrame("tgas", gaia_default_dr(dr), NoInt)>>
    /\ UNCHANGED <<files, noEntry, result, cvars, lvars, mvars, pvars>>

\* tgas_load after tgas has returned its list: every file is opened and its
\* columns gathered, the rows are filtered when filter is True, the dict of
\* the seven arrays is returned.
TgasLoadRest ==
    /\ outcome = "returned"
    /\ call.fn = "tgas_load"
    /\ loaded' = LoadArrays(result, filter)
    /\ outcome' = "loaded"
    /\ UNCHANGED <<call, stack, files, manifest, noEntry, folder, events, result,
                   tables, filter, cvars, mvars, pvars>>

\* The data releases a caller of tgas_load passes.
LoadDrs == {NoInt, 1, 2}

\* The (parallax, parallax_error) pairs of the rows of the model: a good
\* row, one at 20%, one above, a negative parallax, a zero parallax.
RowKinds == {<<10, 1>>, <<10, 2>>, <<10, 3>>, <<-10, 1>>, <<0, 1>>}

\* The k-th row of the tables: its other columns name the row.
TgasRow(k, kind) ==
    [RA |-> 100 + k, DEC |-> 200 + k, PMRA |-> 300 + k, PMDEC |-> 400 + k,
     parallax |-> kind[1], parallax_error |-> kind[2],
     phot_g_mean_mag |-> 500 + k]

\* One call of tgas_load: the cache directory is empty, or holds the
\* manifest and the 16 files intact; the first and the last file hold the
\* rows, the others hold none.
InitLoad ==
    /\ call \in [fn : {"tgas_load"}, dr : LoadDrs, flag : {NoInt}]
    /\ filter \in BOOLEAN
    /\ \E kinds \in UNION {[1..n -> RowKinds] : n \in 0..MaxLoadRows} :
         \E cut \in 0..Len(kinds) :
            tables = [path \in {TgasName(0), TgasName(NumTgas - 1)} |->
                        IF path = TgasName(0)
                        THEN [k \in 1..cut |-> TgasRow(k, kinds[k])]
                        ELSE [k \in 1..(Len(kinds) - cut) |->
                                TgasRow(cut + k, kinds[cut + k])]]
    /\ \E full \in BOOLEAN :
         /\ files = [base |-> IF full THEN Clean ELSE Absent, over |-> <<>>]
         /\ manifest = (IF full THEN TgasUrlBase ELSE "absent")
         /\ folder = full
    /\ noEntry = {}
    /\ stack = <<>>
    /\ events = <<>>
    /\ outcome = "called"
    /\ result = <<>>
    /\ loaded = <<>>
    /\ CompileIdle /\ LossIdle /\ ProgressIdle

NextLoad ==
    \/ TgasLoadEnter
    \/ TgasIter
    \/ Return
    \/ TgasLoadRest

SpecLoad == InitLoad /\ [][NextLoad]_vars

(***************************************************************************)
(* astroNN.nn.losses: mean_squared_error on tensors of one axis.           *)
(* Numbers that need not be whole are fractions <<num, den>>, den > 0, in  *)
(* lowest terms.                                                           *)
(***************************************************************************)
\* The sentinel of an absent label.
MAGIC_NUMBER == -9999

RECURSIVE Gcd(_, _)
Gcd(a, b) == IF b = 0 THEN a ELSE Gcd(b, a % b)

Abs(x) == IF x < 0 THEN -x ELSE x

\* n / d in lowest terms.
Frac(n, d) ==
    LET g == Gcd(Abs(n), Abs(d))
        sgn == IF d < 0 THEN -1 ELSE 1
    IN  <<sgn * (n \div g), sgn * (d \div g)>>

\* p * q
FracMul(p, q) == Frac(p[1] * q[1], p[2] * q[2])

RECURSIVE SeqSum(_)
SeqSum(x) == IF x = <<>> THEN 0 ELSE x[1] + SeqSum(Tail(x))

\* The squared differences with no position zeroed.
SquaredUnmasked(yt, yp) ==
    [k \in 1..Len(yt) |-> (yt[k] - yp[k]) * (yt[k] - yp[k])]

\* tf.where(tf.equal(y_true, MAGIC_NUMBER), tf.zeros_like(y_true),
\*          tf.square(y_true - y_pred))
SquaredMasked(yt, yp) ==
    [k \in 1..Len(yt) |->
        IF yt[k] = MAGIC_NUMBER THEN 0 ELSE (yt[k] - yp[k]) * (yt[k] - yp[k])]

\* tf.reduce_mean(x, axis=-1)
reduce_mean(x) == Frac(SeqSum(x), Len(x))

\* magic_correction_term(y_true): the label slots over the slots that hold a
\* label; `safe` is what its safeguard makes of a tensor with no label.
magic_correction_term(yt, safe) ==
    LET present == Cardinality({k \in 1..Len(yt) : yt[k] # MAGIC_NUMBER})
    IN  IF present = 0 THEN safe ELSE Frac(Len(yt), present)

\* mean_squared_error(y_true, y_pred)
mean_squared_error(yt, yp, safe) ==
    FracMul(reduce_mean(SquaredMasked(yt, yp)), magic_correction_term(yt, safe))

\* What the safeguard of the correction term may give for n label slots.
Safeguards(n) == {<<1, 1>>, <<n, 1>>}

\* One call of mean_squared_error.
MeanSquaredError ==
    /\ loss = <<>>
    /\ \E safe \in Safeguards(Len(y_true)) :
          loss' = mean_squared_error(y_true, y_pred, safe)
    /\ UNCHANGED <<y_true, y_pred, dlvars, cvars, lvars, pvars>>

\* The block sizes and the total sizes the progress hook is called with.
BlockSizes == {1, 2}
TotalSizes == {NoInt, 8}

\* The labels and the predictions of the model.
LabelValues == {MAGIC_NUMBER, 0, 2}
PredValues == {2, 3, 5}

InitLoss ==
    /\ \E n \in 1..MaxLabels :
          /\ y_true \in [1..n -> LabelValues]
          /\ y_pred \in [1..n -> PredValues]
    /\ loss = <<>>
    /\ DownloadIdle /\ CompileIdle /\ LoadIdle /\ ProgressIdle

NextLoss == MeanSquaredError

SpecLoss == InitLoss /\ [][NextLoss]_vars

(***************************************************************************)
(* TqdmUpTo.update_to (astroNN.gaiatools.downloader)                       *)
(***************************************************************************)

\* The position asked for, handed to self.update as it is.
PositionAsDelta(b, bsize, n) == b * bsize

\* b * bsize - self.n, the argument update_to hands to self.update.
Delta(b, bsize, n) == b * bsize - n

\* update_to(b, bsize, tsize): the total is set when tsize is given, then
\* self.update(delta) adds delta to self.n.
UpdateTo ==
    /\ Len(progress) < MaxCalls
    /\ \E b \in 0..MaxBlocks, bsize \in BlockSizes, tsize \in TotalSizes :
        LET delta == Delta(b, bsize, tqdm_n)
        IN  /\ tqdm_total' = IF tsize # NoInt THEN tsize ELSE tqdm_total
            /\ tqdm_n' = tqdm_n + delta
            /\ progress' = Append(progress,
                    [b |-> b, bsize |-> bsize, tsize |-> tsize, delta |-> delta,
                     n |-> tqdm_n', total |-> tqdm_total'])
    /\ UNCHANGED <<dlvars, cvars, lvars, mvars>>

InitProgress == DownloadIdle /\ CompileIdle /\ LoadIdle /\ LossIdle /\ ProgressIdle

NextProgress == UpdateTo

SpecProgress == InitProgress /\ [][NextProgress]_vars

(***************************************************************************)
(* Properties of the download functions.                                   *)
(***************************************************************************)
\* The call has ended, by a return or by an exception.
Ended == outcome \notin {"called", "running"}

\* The names of tgas's 16 files, in index order 0..15.
TgasPaths == [k \in 1..16 |-> TgasName(k - 1)]

\* The names of gaia_source's files: 5120 of the first scheme, j outer and i
\* inner, then 111 of the second.
GaiaPaths ==
    [k \in 1..5231 |-> IF k <= 5120
                       THEN GaiaName((k - 1) \div 256, (k - 1) % 256)
                       ELSE GaiaName(20, k - 5121)]

\* C1: tgas(dr=1) always returns exactly the 16 TGAS paths in index order,
\* whatever the cache held before and whichever branch handled each file.
C1_TgasReturnsAllPaths ==
    (call.fn = "tgas" /\ call.dr = 1 /\ call.flag = NoInt /\ Ended)
        => (outcome = "returned" /\ result = TgasPaths)

\* The events of a kind, in order.
EventsOf(kind) == SelectSeq(events, LAMBDA e : e[1] = kind)

\* C2: when one TGAS file is found damaged in the cache and every download
\* delivers intact content, tgas ends normally after one redo, with the file
\* intact in the cache and downloaded once.
C2_OneRedoEndsClean ==
    (/\ call.fn = "tgas" /\ call.flag = NoInt /\ Ended
     /\ Len(EventsOf("corruption")) = 1
     /\ \A k \in 1..Len(events) : events[k][1] = "urlretrieve" => events[k][4] = Clean)
        => LET name == EventsOf("corruption")[1][2]
           IN  /\ outcome = "returned"
               /\ FileContent(files, name) = Clean
               /\ Len(SelectSeq(EventsOf("urlretrieve"), LAMBDA e : e[3] = name)) = 1

\* C3: gaia_source(dr=1) always returns exactly the 5231 Gaia-source paths,
\* the two naming schemes in order, also when files have to be downloaded.
C3_GaiaReturnsAllPaths ==
    (call.fn = "gaia_source" /\ call.dr = 1 /\ call.flag = NoInt /\ Ended)
        => (outcome = "returned" /\ Len(result) = 5231 /\ result = GaiaPaths)

\* The data releases a function has no mapping for.
UnsupportedDr(c) ==
    IF c.fn \in {"tgas", "gaia_source"}
    THEN c.dr \notin {NoInt, 1}
    ELSE c.dr \notin {NoInt, 13, 14}

\* C4: a call with an unsupported data release fails with ValueError as its
\* first step: no network request, no directory made, no file written.
C4_UnsupportedRaisesFirst ==
    [][(outcome = "called" /\ UnsupportedDr(call))
          => (/\ outcome' = "ValueError"
              /\ events' = <<>>
              /\ UNCHANGED <<files, manifest, folder>>)]_vars

\* An unsupported call has failed where a later check would have made the
\* folder and fetched the manifest first.
C4_Witness ==
    /\ outcome = "ValueError"
    /\ call.fn = "gaia_source" /\ call.dr = 2
    /\ ~folder /\ manifest = "absent"

\* Sanity: what a normal return of tgas or gaia_source hands back.
ReturnedListComplete ==
    (outcome = "returned" /\ call.fn = "tgas" => result = TgasPaths)
    /\ (outcome = "returned" /\ call.fn = "gaia_source" => result = GaiaPaths)

(***************************************************************************)
(* Properties of H5Compiler.compile.                                       *)
(***************************************************************************)
\* compile returned, the archive is written.
Written == cpc = "done"

\* The rows of a dataset: those of the array it was written from, the rows
\* the model does not keep counted in.
Rows(d) == IF d = "index" THEN Len(archive[d]) ELSE origin + Len(archive[d])

\* C5: every dataset of the archive has as many rows as `spectra`.
C5_RowAligned ==
    Written => \A d \in DOMAIN archive : Rows(d) = Rows("spectra")

\* The four datasets written in every mode.
SpectraDatasets == {"spectra", "spectra_err", "in_flag", "index"}

\* The names of the create_dataset lines under `spectra_only is not True`.
ScalarDatasets ==
    {"SNR", "RA", "DEC", "teff", "logg", "M", "alpha", "C", "C1", "N", "O",
     "Na", "Mg", "Al", "Si", "P", "S", "K", "Ca", "Ti", "Ti2", "V", "Cr", "Mn",
     "Fe", "Ni", "Cu", "Ge", "Rb", "Y", "Nd", "absmag",
     "teff_err", "logg_err", "M_err", "alpha_err", "C_err", "C1_err", "N_err",
     "O_err", "Na_err", "Mg_err", "Al_err", "Si_err", "P_err", "S_err",
     "K_err", "Ca_err", "Ti_err", "Ti2_err", "V_err", "Cr_err", "Mn_err",
     "Fe_err", "Ni_err", "Cu_err", "Ge_err", "Rb_err", "Y_err", "Nd_err",
     "absmag_err"}

\* C6 as stated: spectra_only writes exactly the 4 datasets, and without it
\* exactly 62 named datasets are written.
C6_SixtyTwoDatasets ==
    Written => IF cfg.spectra_only
               THEN DOMAIN archive = SpectraDatasets
               ELSE Cardinality(DOMAIN archive) = 62

\* C6, amended: spectra_only writes exactly the 4 datasets, and without it
\* exactly 65 are written: the 4, SNR, RA, DEC, 29 quantities (absmag among
\* them) and their 29 _err datasets.
C6_DatasetsByMode ==
    Written => IF cfg.spectra_only
               THEN DOMAIN archive = SpectraDatasets
               ELSE /\ DOMAIN archive = SpectraDatasets \cup ScalarDatasets
                    /\ Cardinality(DOMAIN archive) = 65

\* An archive with rows has been written with every dataset.
C6_Witness ==
    Written /\ ~cfg.spectra_only /\ Rows("spectra") >= 2

\* No retrieval signalled a warning and every star had one visit.
AllSingleVisit ==
    \A k \in 1..Len(retrieved) :
        retrieved[k].warningflag = NoInt /\ retrieved[k].NVISITS = 1

\* C7: with N filtered stars, no warning and one visit each, the archive has
\* exactly N rows and in_flag is 0 everywhere, on either spectrum path.
C7_SingleVisitRowCount ==
    (Written /\ AllSingleVisit)
        => /\ Rows("spectra") = Len(indices)
           /\ Rows("in_flag") = Len(indices)
           /\ \A r \in 1..Rows("in_flag") : archive["in_flag"][r] = 0

\* Two single-visit stars have been compiled on the default path.
C7_Witness ==
    Written /\ AllSingleVisit /\ cfg.continuum /\ Len(indices) = 2

\* The passes that wrote a block of more than one row.
MultiVisitPasses ==
    {k \in 1..Len(retrieved) :
        retrieved[k].warningflag = NoInt /\ retrieved[k].NVISITS > 1}

\* The rows (from 1) of the block a pass wrote.
Block(k) ==
    (retrieved[k].at - origin + 1)..(retrieved[k].at - origin + retrieved[k].nvisits)

\* In the rows of a block the array holds one value.
Broadcast(arr, k) == \A r \in Block(k) : arr[r] = arr[retrieved[k].at - origin + 1]

\* The first row of a block is flagged 0 and every other row 1.
FlaggedAsBlock(arr, k) ==
    \A r \in Block(k) : arr[r] = (IF r = retrieved[k].at - origin + 1 THEN 0 ELSE 1)

\* C8: on the continuum-normalization path a star with more than one visit
\* gives one block of rows, the first flagged 0 and the others 1, and every
\* scalar column holds one value throughout the block; in the working arrays
\* and in the archive.
C8_MultiVisitBlock ==
    \A k \in MultiVisitPasses :
        /\ cfg.continuum
        /\ retrieved[k].nvisits > 1
        /\ cpc = "loop" =>
              /\ FlaggedAsBlock(buf["individual_flag"], k)
              /\ \A name \in BufNames \ {"spec", "spec_err", "individual_flag"} :
                    Broadcast(buf[name], k)
        /\ Written =>
              /\ FlaggedAsBlock(archive["in_flag"], k)
              /\ \A d \in DOMAIN archive \ SpectraDatasets : Broadcast(archive[d], k)

\* A star with 3 visits has been compiled into a full archive.
C8_Witness ==
    /\ Written /\ ~cfg.spectra_only
    /\ \E k \in MultiVisitPasses : retrieved[k].NVISITS = 3

\* C9: a star whose retrieval returns a warning flag is skipped: no error, no
\* row written, cursor and working arrays unchanged, and the loop goes on.
C9_WarningStarSkipped ==
    [][(/\ Len(retrieved') = Len(retrieved) + 1
        /\ retrieved'[Len(retrieved')].warningflag # NoInt)
          => (/\ cpc' = "loop"
              /\ counter' = counter + 1
              /\ UNCHANGED <<buf, array_counter>>)]_vars

\* C10: with an external astrometric catalog enabled compile completes, and
\* absmag and absmag_err have one entry per archive row, each the placeholder
\* -9999 unless a match overwrote it.
C10_CrossMatchCompletes ==
    (/\ cfg.use_anderson_2017 \/ cfg.use_esa_gaia
     /\ cpc \notin {"start", "loop", "InvalidInput"}
     /\ counter = Len(indices))
        => /\ Written
           /\ ~cfg.spectra_only =>
                /\ Rows("absmag") = Rows("spectra")
                /\ Rows("absmag_err") = Rows("spectra")

(***************************************************************************)
(* Properties of tgas_load.                                                *)
(***************************************************************************)
\* The rows of the tables in file order.
AllRows == tables[TgasName(0)] \o tables[TgasName(NumTgas - 1)]

\* parallax > 0 and parallax_error / parallax < 0.2
GoodParallax(r) == r.parallax > 0 /\ 5 * r.parallax_error < r.parallax

IndexSet(q) == {q[k] : k \in 1..Len(q)}

\* C12: switching on starflagcut or aspcapflagcut never adds an index: what
\* the filter returns with a switch on is a subset of what it returns for
\* the same catalog with that switch off.
C12_MoreCriteriaFewerRows ==
    cpc = "filtered"
        => \A switch \in {"starflagcut", "aspcapflagcut"} :
              cfg[switch]
                => IndexSet(indices)
                     \subseteq IndexSet(filter_apogeeid_list(
                                    [cfg EXCEPT ![switch] = FALSE], hdulist))

\* Both switches are on and each of them removed a row.
C12_Witness ==
    /\ cpc = "filtered" /\ cfg.starflagcut /\ cfg.aspcapflagcut
    /\ Len(hdulist) = 2
    /\ Len(filter_apogeeid_list([cfg EXCEPT !.starflagcut = FALSE], hdulist)) = 1
    /\ Len(filter_apogeeid_list([cfg EXCEPT !.aspcapflagcut = FALSE], hdulist)) = 1
    /\ indices = <<>>

\* C13 as stated: with both switches off the filter returns every row index.
C13_NoCriteriaReturnsAll ==
    (cpc = "filtered" /\ ~cfg.starflagcut /\ ~cfg.aspcapflagcut)
        => indices = [k \in 1..Len(hdulist) |-> k - 1]

\* A row passes the masks no switch turns off.
PassesThresholds(row) ==
    /\ 4000 <= row.TEFF /\ row.TEFF <= 5500
    /\ row.VSCATTER < 1
    /\ row.XH17 > -3
    /\ row.LOGG # -9999
    /\ 200 < row.SNR /\ row.SNR < 99999
    /\ row.K # -9999
    /\ row.LOCATION_ID > 1

\* C13, amended: with both switches off the filter returns, ascending and
\* each once, exactly the indices of the rows that pass the nine masks that
\* are always applied; a row failing one of them is not returned.
C13_NoSwitchKeepsThresholds ==
    (cpc = "filtered" /\ ~cfg.starflagcut /\ ~cfg.aspcapflagcut)
        => /\ \A x \in 0..(Len(hdulist) - 1) :
                x \in IndexSet(indices) <=> PassesThresholds(hdulist[x + 1])
           /\ \A k \in 1..(Len(indices) - 1) : indices[k] < indices[k + 1]

\* With both switches off a flagged row was returned and a faint one was not.
C13_Witness ==
    /\ cpc = "filtered" /\ ~cfg.starflagcut /\ ~cfg.aspcapflagcut
    /\ hdulist = <<FaintStar, BothFlaggedStar>>
    /\ indices = <<1>>

(***************************************************************************)
(* More properties of H5Compiler.compile.                                  *)
(***************************************************************************)
\* C14: compile with no h5_filename fails with InvalidInput as its first
\* step: the catalog is not filtered, no working array is allocated, no
\* archive is created, nothing is downloaded or written.
C14_MissingNameRaisesFirst ==
    [][(cpc = "start" /\ cfg.h5_filename = None)
          => (/\ cpc' = "InvalidInput"
              /\ UNCHANGED <<indices, buf, archive, array_counter, counter,
                             retrieved, events, files>>)]_vars

\* compile was refused for its missing name with a catalog of two stars
\* that pass the filter.
C14_Witness ==
    /\ cpc = "InvalidInput" /\ cfg.h5_filename = None
    /\ hdulist = <<GoodStar, GoodStar>>
    /\ indices = <<>> /\ buf = <<>> /\ archive = <<>>

(***************************************************************************)
(* Properties of the loss functions.                                       *)
(***************************************************************************)
\* The slots of y_true that hold a label.
Labelled == {k \in 1..Len(y_true) : y_true[k] # -9999}

\* The squared differences at the labelled slots, 0 at the others.
LabelledSquares ==
    [k \in 1..Len(y_true) |->
        IF k \in Labelled THEN (y_true[k] - y_pred[k]) * (y_true[k] - y_pred[k])
        ELSE 0]

\* C15: mean_squared_error counts 0 for every slot whose label is the
\* sentinel, whatever is predicted there, and returns the mean of the
\* squared differences over all slots times (slots / labelled slots);
\* y_true=[MAGIC_NUMBER, 2] gives 1 with y_pred=[5, 3] and 0 with [5, 2].
C15_MaskedMeanSquaredError ==
    loss # <<>>
        => /\ Labelled # {}
                => loss[1] * Len(y_true) * Cardinality(Labelled)
                     = SeqSum(LabelledSquares) * Len(y_true) * loss[2]
           /\ (y_true = <<-9999, 2>> /\ y_pred = <<5, 3>>) => loss = <<1, 1>>
           /\ (y_true = <<-9999, 2>> /\ y_pred = <<5, 2>>) => loss = <<0, 1>>

\* The loss of y_true=[MAGIC_NUMBER, 2], y_pred=[5, 3] has been computed.
C15_Witness ==
    y_true = <<-9999, 2>> /\ y_pred = <<5, 3>> /\ loss = <<1, 1>>

(***************************************************************************)
(* More properties of the download functions.                              *)
(***************************************************************************)
\* The URL a legacy function maps the call's data release to.
LegacyUrl ==
    IF call.fn = "legacy_tgas" THEN LegacyTgasUrl(call.dr)
    ELSE LegacyGaiaSourceUrl(call.dr)

\* C16: a legacy tgas or gaia_source call with dr absent, 13 or 14 makes
\* exactly one download, of the mapped URL, into the current working
\* directory, and does nothing else: no manifest, no look at the cache.
C16_LegacyDownloadsIntoCwd ==
    (call.fn \in {"legacy_tgas", "legacy_gaia_source"} /\ outcome = "returned")
        => /\ Len(events) = 1
           /\ events[1][1] = "urlretrieve"
           /\ events[1][2] = LegacyUrl
           /\ events[1][3][1] = "cwd"
           /\ manifest = "absent" /\ ~IsFile(files, events[1][3])

\* The step downloaded a file of the catalog (not the manifest).
DownloadedFile ==
    /\ Len(events') > Len(events)
    /\ events'[Len(events) + 1][1] = "urlretrieve"
    /\ events'[Len(events) + 1][3][1] \in {"TgasSource", "GaiaSource"}

\* C17: after tgas or gaia_source has downloaded a file, the file is judged
\* by comparing its checksum with the manifest entry of that same file, as
\* in the cached branch: it is found damaged exactly when that entry exists
\* and differs, and no undefined value is read.
C17_DownloadCheckedAgainstOwnEntry ==
    [][DownloadedFile
          => LET name == events'[Len(events) + 1][3]
                 judged == /\ Len(events') > Len(events) + 1
                           /\ events'[Len(events) + 2] = <<"corruption", name>>
             IN  /\ outcome' # "UnboundLocalError"
                 /\ judged <=> Mismatch(Md5Checksum(files', name),
                                        FileHash(manifest, name))]_vars

\* C18: in a call of tgas without the redo flag, a pass over a file that is
\* in the cache downloads nothing; the file is accepted and appended to the
\* list when its checksum equals its manifest entry or the manifest has no
\* entry for it, and otherwise tgas calls itself with the redo flag set.
C18_CachedFileHandling ==
    [][(/\ outcome = "running" /\ stack # <<>>
        /\ Top.fn = "tgas" /\ Top.i < NumTgas /\ Top.flag = NoInt
        /\ IsFile(files, TgasName(Top.i)))
          => LET name == TgasName(Top.i)
                 entry == FileHash(manifest, name)
                 accepted == entry = <<>> \/ Md5Checksum(files, name) = entry[1]
             IN  /\ files' = files
                 /\ \A k \in (Len(events) + 1)..Len(events') :
                        events'[k][1] # "urlretrieve"
                 /\ IF accepted
                    THEN /\ outcome' = "running"
                         /\ Len(stack') = Len(stack)
                         /\ stack'[Len(stack')].fulllist = Append(Top.fulllist, name)
                    ELSE /\ Len(stack') = Len(stack) + 1
                         /\ stack'[Len(stack')].fn = "tgas"
                         /\ stack'[Len(stack')].flag = 1]_vars

\* A damaged cached file without a manifest entry was accepted, and a later
\* cached file that differs from its entry made tgas call itself.
C18_Witness ==
    /\ outcome = "running" /\ Len(stack) = 2
    /\ stack[1].fn = "tgas" /\ stack[1].flag = NoInt /\ stack[1].resume = "cached"
    /\ stack[2].flag = 1
    /\ \E k \in 1..Len(stack[1].fulllist) :
          /\ stack[1].fulllist[k] \in noEntry
          /\ FileContent(files, stack[1].fulllist[k]) = Corrupt

\* C19: under persistent corruption tgas goes on calling itself without a
\* ceiling: whenever a download of a TGAS file delivers content that differs
\* from the file's manifest entry, at whatever depth, tgas calls itself with
\* the redo flag and the call stays unfinished.
C19_MismatchAlwaysRecurses ==
    [][(/\ DownloadedFile
        /\ events'[Len(events) + 1][3][1] = "TgasSource"
        /\ events'[Len(events) + 1][4] = Corrupt
        /\ FileHash(manifest, events'[Len(events) + 1][3]) # <<>>)
          => (/\ outcome' = "running"
              /\ Len(stack') = Len(stack) + 1
              /\ stack'[Len(stack')].flag = 1)]_vars

\* The calls of tgas and gaia_source never nest deeper than one redo.
RedoDepthAtMostTwo == Len(stack) <= 2

\* C20: no guard keeps the rows within the capacity of the working arrays,
\* and a star whose block of rows crosses that capacity makes compile fail
\* with an indexing or shape error: its pass does not complete, no row is
\* silently dropped and no archive is written.
C20_OverflowFails ==
    \A k \in 1..Len(retrieved) :
        (/\ retrieved[k].warningflag = NoInt
         /\ retrieved[k].at + retrieved[k].nvisits > default_length)
            => (/\ cpc = "ValueError"
                /\ counter = k - 1
                /\ archive = <<>>)

\* What the loop does at the capacity: a block of several rows that does not
\* fit stops compile, a block of one row is written nowhere and the loop
\* goes on; the archive then holds default_length rows.
OverflowOutcome ==
    /\ \A k \in 1..Len(retrieved) :
        (/\ retrieved[k].warningflag = NoInt
         /\ retrieved[k].at + retrieved[k].nvisits > default_length)
            => IF retrieved[k].nvisits = 1
               THEN counter >= k
               ELSE counter = k - 1 /\ cpc = "ValueError" /\ archive = <<>>
    /\ (cpc = "done" /\ array_counter > default_length)
            => Rows("spectra") = default_length

\* The bar before call i of update_to.
PositionBefore(i) == IF i = 1 THEN 0 ELSE progress[i - 1].n
TotalBefore(i) == IF i = 1 THEN NoInt ELSE progress[i - 1].total

\* What every update_to call does to the position and to the total.
MovesTo(i) ==
    /\ progress[i].delta = progress[i].b * progress[i].bsize - PositionBefore(i)
    /\ progress[i].n = progress[i].b * progress[i].bsize
    /\ progress[i].total = (IF progress[i].tsize # NoInt THEN progress[i].tsize
                            ELSE TotalBefore(i))

\* C21: each update_to(b, bsize, tsize) advances the position by b*bsize
\* minus the previous position and leaves it at b*bsize, the advance is
\* never negative, and the total becomes tsize when tsize is given and is
\* left unchanged when it is absent.
C21_AdvanceNeverNegative ==
    \A i \in 1..Len(progress) : MovesTo(i) /\ progress[i].delta >= 0

\* C21, amended: the advance is b*bsize minus the previous position, and it
\* is negative exactly when b*bsize is below the previous position; the
\* position and the total are as stated.
C21_AdvanceIsDifference ==
    /\ tqdm_n = (IF progress = <<>> THEN 0 ELSE progress[Len(progress)].n)
    /\ \A i \in 1..Len(progress) :
        /\ MovesTo(i)
        /\ progress[i].delta < 0 <=> progress[i].b * progress[i].bsize < PositionBefore(i)

\* A bar that was moved back, by a call that gave no total after one did.
C21_Witness ==
    \E i \in 2..Len(progress) :
        /\ progress[i].delta < 0
        /\ progress[i].tsize = NoInt
        /\ progress[i].total = 8
        /\ tqdm_n = progress[Len(progress)].n

\* C22: when tgas(dr=1) returns normally, every path it returns names a file
\* that exists locally and whose checksum equals its manifest entry whenever
\* the manifest has an entry for the file.
C22_ReturnedFilesVerified ==
    (outcome = "returned" /\ call.fn = "tgas")
        => \A k \in 1..Len(result) :
              /\ IsFile(files, result[k])
              /\ ~Mismatch(Md5Checksum(files, result[k]), FileHash(manifest, result[k]))

\* C23: gaia_source compares checksums with the manifest published at the
\* Gaia-source URL, whatever an earlier tgas call left in the shared cache
\* directory, so a pass of gaia_source over a locally present damaged
\* GaiaSource file always detects the corruption.
C23_GaiaSourceUsesOwnManifest ==
    [][(/\ outcome = "running" /\ stack # <<>>
        /\ Top.fn = "gaia_source" /\ Top.flag = NoInt
        /\ ~LoopsDone(Top)
        /\ FileContent(files, CurrentName(Top)) = Corrupt)
          => (/\ manifest = GaiaUrlBase
              /\ events' = Append(events, <<"corruption", CurrentName(Top)>>))]_vars

\* The passes that wrote their star: completed, and without a warning.
WrittenPasses ==
    {k \in 1..Len(retrieved) : k <= counter /\ retrieved[k].warningflag = NoInt}

\* The rows of the stars written by the first k passes.
RECURSIVE RowsBefore(_)
RowsBefore(k) ==
    IF k = 0 THEN 0
    ELSE RowsBefore(k - 1) + (IF k \in WrittenPasses THEN retrieved[k].nvisits ELSE 0)

\* Row r (from 0) of a spectra array holds a spectrum of the star at `index`.
HoldsStar(arr, r, index) ==
    /\ r - origin < Len(arr)
    /\ arr[r - origin + 1][2][2] = index

\* The spectra array as it is now: the working array, the dataset once the
\* archive is written.
SpectraNow == IF cpc = "done" THEN archive["spectra"] ELSE buf["spec"]

\* C24: at every iteration of compile's loop the write cursor is the sum of
\* the rows of the stars written so far; each written star holds the block
\* of rows from the cursor its pass met, no block is overwritten later,
\* blocks follow each other in ascending catalog order, and the truncation
\* keeps exactly the rows below the final cursor.
C24_CursorPartitionsRows ==
    (cpc \in {"loop", "done"}) =>
        /\ array_counter = RowsBefore(counter)
        /\ \A k \in WrittenPasses :
              /\ retrieved[k].at = RowsBefore(k - 1)
              /\ \A r \in retrieved[k].at..(retrieved[k].at + retrieved[k].nvisits - 1) :
                    r >= origin => HoldsStar(SpectraNow, r, retrieved[k].index)
              /\ \A l \in WrittenPasses :
                    k < l => /\ retrieved[k].index < retrieved[l].index
                             /\ retrieved[k].at + retrieved[k].nvisits <= retrieved[l].at
        /\ cpc = "done" => Rows("spectra") = array_counter

\* C25: the column filter_apogeeid_list tests against ironlow is the one
\* compile writes to the Fe dataset, so every row of the archive has
\* Fe > ironlow.
C25_ArchiveRowsPassIronCut ==
    (cpc = "done" /\ "Fe" \in DOMAIN archive)
        => \A r \in 1..Len(archive["Fe"]) : archive["Fe"][r] > ironlow

====
